---- MODULE Spec2Model ----
(***************************************************************************)
(* Model of _scripts/create_file.py: the post/draft scaffolder.            *)
(*                                                                         *)
(* Python str values are sequences of one-character strings, so that       *)
(* lower(), join(), os.path.join, os.path.dirname, os.path.abspath are     *)
(* computed character by character as the library computes them.  A file   *)
(* content is the sequence of its lines.  The filesystem is a set of       *)
(* directories and a function from file paths to contents, both keyed by   *)
(* the resolved path (a sequence of components below "/").  The paths the  *)
(* model draws have no ".." component and there are no symbolic links.     *)
(***************************************************************************)
EXTENDS Integers, Sequences, FiniteSets, TLC

VARIABLES pc, entry, call, args, file_name, dest_dir, file, content, todo,
          handle, exc, dirs, files, today, env, runs, stdout, called,
          dirs0, files0, rerun, prevFile

vars == <<pc, entry, call, args, file_name, dest_dir, file, content, todo,
          handle, exc, dirs, files, today, env, runs, stdout, called,
          dirs0, files0, rerun, prevFile>>

\* Number of invocations that touch the filesystem in one behaviour.
MaxRuns == 2

---------------------------------------------------------------------------
\* Python values

\* Python's None and a present value, for the optional argparse attributes.
None == [isNone |-> TRUE, val |-> <<>>]

Some(v) == [isNone |-> FALSE, val |-> v]

UpperLetters == <<"A","B","C","D","E","F","G","H","I","J","K","L","M",
                  "N","O","P","Q","R","S","T","U","V","W","X","Y","Z">>

LowerLetters == <<"a","b","c","d","e","f","g","h","i","j","k","l","m",
                  "n","o","p","q","r","s","t","u","v","w","x","y","z">>

LowerChar(c) ==
    IF \E i \in 1..26 : UpperLetters[i] = c
    THEN LowerLetters[CHOOSE i \in 1..26 : UpperLetters[i] = c]
    ELSE c

\* str.lower()
Lower(s) == [i \in 1..Len(s) |-> LowerChar(s[i])]

\* sep.join(parts)
RECURSIVE StrJoin(_, _)
StrJoin(sep, parts) ==
    IF parts = <<>> THEN <<>>
    ELSE IF Len(parts) = 1 THEN parts[1]
    ELSE parts[1] \o sep \o StrJoin(sep, Tail(parts))

Digits == <<"0","1","2","3","4","5","6","7","8","9">>

Digit(n) == Digits[n + 1]

\* date.isoformat(): "%04d-%02d-%02d"
IsoFormat(d) ==
    << Digit((d.year \div 1000) % 10), Digit((d.year \div 100) % 10),
       Digit((d.year \div 10) % 10), Digit(d.year % 10), "-",
       Digit((d.month \div 10) % 10), Digit(d.month % 10), "-",
       Digit((d.day \div 10) % 10), Digit(d.day % 10) >>

---------------------------------------------------------------------------
\* posixpath

IsAbs(p) == Len(p) > 0 /\ p[1] = "/"

\* One step of os.path.join: an absolute component discards what precedes.
Join2(a, b) ==
    IF IsAbs(b) THEN b
    ELSE IF a = <<>> \/ a[Len(a)] = "/" THEN a \o b
    ELSE a \o <<"/">> \o b

\* os.path.join(a, *p)
RECURSIVE PathJoinFrom(_, _)
PathJoinFrom(a, p) ==
    IF p = <<>> THEN a ELSE PathJoinFrom(Join2(a, Head(p)), Tail(p))

PathJoin(parts) == PathJoinFrom(Head(parts), Tail(parts))

\* s.rfind("/") + 1
RFindSlash(s) ==
    LET S == {k \in 1..Len(s) : s[k] = "/"}
    IN  IF S = {} THEN 0 ELSE CHOOSE k \in S : \A j \in S : j <= k

AllSlashes(s) == \A k \in 1..Len(s) : s[k] = "/"

RECURSIVE RStripSlash(_)
RStripSlash(s) ==
    IF s # <<>> /\ s[Len(s)] = "/" THEN RStripSlash(SubSeq(s, 1, Len(s) - 1))
    ELSE s

\* os.path.dirname
Dirname(p) ==
    LET head == SubSeq(p, 1, RFindSlash(p))
    IN  IF head # <<>> /\ ~AllSlashes(head) THEN RStripSlash(head) ELSE head

\* s.split("/")
RECURSIVE SplitSlash(_)
SplitSlash(s) ==
    LET S == {k \in 1..Len(s) : s[k] = "/"}
    IN  IF S = {} THEN <<s>>
        ELSE LET k == CHOOSE i \in S : \A j \in S : i <= j
             IN  <<SubSeq(s, 1, k - 1)>> \o SplitSlash(SubSeq(s, k + 1, Len(s)))

DotDot == <<".", ".">>

RECURSIVE NormComps(_, _, _)
NormComps(comps, acc, rooted) ==
    IF comps = <<>> THEN acc
    ELSE LET c == Head(comps)
         IN  IF c = <<>> \/ c = <<".">> THEN NormComps(Tail(comps), acc, rooted)
             ELSE IF c # DotDot \/ (~rooted /\ acc = <<>>)
                       \/ (acc # <<>> /\ acc[Len(acc)] = DotDot)
                  THEN NormComps(Tail(comps), Append(acc, c), rooted)
             ELSE IF acc # <<>>
                  THEN NormComps(Tail(comps), SubSeq(acc, 1, Len(acc) - 1), rooted)
             ELSE NormComps(Tail(comps), acc, rooted)

\* os.path.normpath
Normpath(p) ==
    IF p = <<>> THEN <<".">>
    ELSE LET initial == IF ~IsAbs(p) THEN <<>>
                        ELSE IF Len(p) >= 2 /\ p[2] = "/" /\ ~(Len(p) >= 3 /\ p[3] = "/")
                             THEN <<"/", "/">>
                             ELSE <<"/">>
             body == StrJoin(<<"/">>, NormComps(SplitSlash(p), <<>>, IsAbs(p)))
             r == initial \o body
         IN  IF r = <<>> THEN <<".">> ELSE r

\* os.path.abspath, with the process's working directory
Abspath(p, cwd) == Normpath(IF IsAbs(p) THEN p ELSE Join2(cwd, p))

---------------------------------------------------------------------------
\* The filesystem: resolved paths are sequences of components below "/".

Nodes == dirs \cup DOMAIN files

Parent(q) == SubSeq(q, 1, Len(q) - 1)

RECURSIVE DropDots(_)
DropDots(comps) ==
    IF comps = <<>> THEN <<>>
    ELSE IF Head(comps) = <<>> \/ Head(comps) = <<".">> THEN DropDots(Tail(comps))
    ELSE <<Head(comps)>> \o DropDots(Tail(comps))

\* The node a path names for the kernel, relative paths starting at the
\* working directory.
Resolve(p) ==
    DropDots(SplitSlash(IF IsAbs(p) THEN p ELSE Join2(env.cwd, p)))

\* os.path.exists: stat() succeeds.  The empty path and a path through a
\* non-directory do not exist.
Exists(p) == p # <<>> /\ Resolve(p) \in Nodes

\* The ancestors of q (q included) that are absent, outermost first: the
\* directories os.makedirs has to create, in the order it creates them.
Missing(q) ==
    LET S == {k \in 1..Len(q) : SubSeq(q, 1, k) \notin Nodes}
        lo == IF S = {} THEN Len(q) + 1 ELSE CHOOSE k \in S : \A j \in S : k <= j
    IN  [i \in 1..(Len(q) + 1 - lo) |-> SubSeq(q, 1, lo + i - 1)]

PutFile(t, c) == [q \in DOMAIN files \cup {t} |-> IF q = t THEN c ELSE files[q]]

\* open(..., mode='a+'): O_CREAT without O_TRUNC.
OpenForAppend(t) == PutFile(t, IF t \in DOMAIN files THEN files[t] ELSE <<>>)

\* What open(..., mode='w+') leaves on disk: O_CREAT | O_TRUNC.
OpenForWrite(t) == PutFile(t, <<>>)

\* What write() leaves on disk: the data goes in at the handle's position,
\* which is the end of what the handle has written so far.
WriteAt(t, data) == PutFile(t, files[t] \o data)

---------------------------------------------------------------------------
\* The script's functions

get_front_matter ==
    << "---",
       "authors: [<author>]",
       "layout: post",
       "title: <title>",
       "categories: [<categories>]",
       "tags: [<tag>]",
       "---" >>

\* create_file_name without the call of lower().
create_file_name_nolower(file_args, ext, d) ==
    StrJoin(<<"-">>, <<IsoFormat(d), StrJoin(<<"-">>, file_args)>>) \o ext

create_file_name(file_args, ext, d) ==
    LET joined == Lower(StrJoin(<<"-">>, file_args))
        dated  == StrJoin(<<"-">>, <<IsoFormat(d), joined>>)
    IN  dated \o ext

DefaultExt == <<".", "m", "d">>

Root == Dirname(Dirname(Abspath(env.script, env.cwd)))

\* get_dest_dir with the test of is_post inverted.
get_dest_dir_swapped(is_post, dest) ==
    LET base_dir == IF is_post THEN <<"_", "d", "r", "a", "f", "t", "s">>
                    ELSE <<"_", "p", "o", "s", "t", "s">>
    IN  PathJoin(<<Root, base_dir, dest>>)

get_dest_dir(is_post, dest) ==
    LET base_dir == IF ~is_post THEN <<"_", "d", "r", "a", "f", "t", "s">>
                    ELSE <<"_", "p", "o", "s", "t", "s">>
    IN  PathJoin(<<Root, base_dir, dest>>)

\* print_file: what standard output holds after printing the file.
print_file(f) == stdout \o files[Resolve(f)]

\* argparse: -f takes one or more words (nargs='+'), -d one string, --drafts
\* is a flag.  None of the three is declared required.
UsageError(argv) == ~argv.f.isNone /\ argv.f.val = <<>>

parse_args(argv) == [filename |-> argv.f, dest |-> argv.d, drafts |-> argv.drafts]

---------------------------------------------------------------------------
\* Inputs

Dates == { [year |-> 2024, month |-> 1, day |-> 2],
           [year |-> 2024, month |-> 3, day |-> 15] }

Later(a, b) == a.month < b.month \/ (a.month = b.month /\ a.day < b.day)

wMy == <<"M", "y">>
wFirst == <<"F", "i", "r", "s", "t">>
wPost == <<"P", "o", "s", "t">>
wDraft == <<"d", "r", "a", "f", "t">>
wIdea == <<"i", "d", "e", "a">>
wSlash == <<"a", "/", "B">>
sIdeas == <<"i", "d", "e", "a", "s">>
sAbsX == <<"/", "x">>

Argvs ==
    { [f |-> Some(<<wMy, wFirst, wPost>>), d |-> None,         drafts |-> FALSE],
      [f |-> Some(<<wMy, wFirst, wPost>>), d |-> Some(<<>>),   drafts |-> FALSE],
      [f |-> Some(<<wDraft, wIdea>>),      d |-> Some(sIdeas), drafts |-> TRUE],
      [f |-> Some(<<wDraft, wIdea>>),      d |-> Some(<<>>),   drafts |-> TRUE],
      [f |-> Some(<<wSlash>>),             d |-> Some(sIdeas), drafts |-> FALSE],
      [f |-> Some(<<wMy>>),                d |-> Some(sAbsX),  drafts |-> FALSE],
      [f |-> None,                         d |-> Some(<<>>),   drafts |-> FALSE],
      [f |-> Some(<<>>),                   d |-> None,         drafts |-> TRUE] }

WordLists == { <<wMy, wFirst, wPost>>, <<wDraft, wIdea>>, <<wSlash>>, <<wMy>> }

Exts == { DefaultExt, <<".", "T", "X", "T">> }

DirectFiles ==
    { <<"a", ".", "m", "d">>,
      <<"d", "/", "a", ".", "m", "d">>,
      <<"/", "r", "/", "n", "/", "a", ".", "m", "d">> }

DirectContents == { get_front_matter, <<"x">> }

ScriptText == << "#!/usr/bin/python3" >>

\* The machine the script is started on: working directory, __file__, the
\* tree on disk, the directories that refuse new entries, a full disk.
Environments ==
    { [cwd |-> <<"/", "r">>, script |-> <<"s", "/", "c", ".", "p", "y">>,
       dirs |-> { <<>>, <<<<"r">>>>, <<<<"r">>, <<"s">>>> },
       files |-> (<< <<"r">>, <<"s">>, <<"c", ".", "p", "y">> >> :> ScriptText),
       readonly |-> {}, diskFull |-> FALSE],
      [cwd |-> <<"/", "r", "/", "s">>, script |-> <<".", "/", "c", ".", "p", "y">>,
       dirs |-> { <<>>, <<<<"r">>>>, <<<<"r">>, <<"s">>>>,
                  <<<<"r">>, <<"_", "p", "o", "s", "t", "s">>>> },
       files |-> (<< <<"r">>, <<"s">>, <<"c", ".", "p", "y">> >> :> ScriptText)
                 @@ (<< <<"r">>, <<"_", "p", "o", "s", "t", "s">>, <<"o", ".", "m", "d">> >> :> <<"old">>)
                 @@ (<< <<"r">>, <<"_", "d", "r", "a", "f", "t", "s">> >> :> <<"not a directory">>),
       readonly |-> {}, diskFull |-> FALSE],
      [cwd |-> <<"/">>, script |-> <<"/", "s", "/", "c", ".", "p", "y">>,
       dirs |-> { <<>>, <<<<"s">>>> },
       files |-> (<< <<"s">>, <<"c", ".", "p", "y">> >> :> ScriptText),
       readonly |-> { <<>> }, diskFull |-> FALSE],
      [cwd |-> <<"/", "r">>, script |-> <<"/", "r", "/", "s", "/", "c", ".", "p", "y">>,
       dirs |-> { <<>>, <<<<"r">>>>, <<<<"r">>, <<"s">>>> },
       files |-> (<< <<"r">>, <<"s">>, <<"c", ".", "p", "y">> >> :> ScriptText),
       readonly |-> {}, diskFull |-> TRUE] }

---------------------------------------------------------------------------
\* State machine

NoFile == <<>>

Terminal == {"idle", "done", "error", "usage"}

\* Process exit status once the interpreter has stopped.
ExitStatus == IF pc = "done" THEN 0 ELSE IF pc = "usage" THEN 2 ELSE 1

Init ==
    /\ \E e \in Environments :
          /\ env = [cwd |-> e.cwd, script |-> e.script,
                    readonly |-> e.readonly, diskFull |-> e.diskFull]
          /\ dirs = e.dirs
          /\ files = e.files
          /\ dirs0 = e.dirs
          /\ files0 = e.files
    /\ today \in Dates
    /\ pc = "idle"
    /\ entry = "none"
    /\ call = [fn |-> "none", argv |-> <<>>, date |-> today]
    /\ args = parse_args([f |-> None, d |-> None, drafts |-> FALSE])
    /\ file_name = <<>>
    /\ dest_dir = <<>>
    /\ file = NoFile
    /\ content = <<>>
    /\ todo = <<>>
    /\ handle = None
    /\ exc = "none"
    /\ runs = 0
    /\ stdout = <<>>
    /\ called = {}
    /\ rerun = FALSE
    /\ prevFile = NoFile

\* Bookkeeping shared by the entry points: the tree as the invocation found
\* it, and whether the invocation repeats the one before it (same function,
\* same arguments, same day) after that one succeeded.
Begin(c) ==
    /\ pc \in Terminal
    /\ runs < MaxRuns
    /\ runs' = runs + 1
    /\ call' = c
    /\ rerun' = (pc = "done" /\ call.fn = c.fn /\ call.argv = c.argv
                               /\ call.date = c.date)
    /\ prevFile' = file
    /\ dirs0' = dirs
    /\ files0' = files
    /\ file_name' = <<>>
    /\ dest_dir' = <<>>
    /\ todo' = <<>>
    /\ exc' = "none"
    /\ UNCHANGED <<handle, dirs, files, today, env, stdout>>

\* __main__ (lines 50-60): parse the command line, then main(args).
RunScript(argv) ==
    /\ Begin([fn |-> "main", argv |-> argv, date |-> today])
    /\ entry' = "main"
    /\ file' = NoFile
    /\ content' = <<>>
    /\ IF UsageError(argv)
       THEN /\ pc' = "usage"
            /\ called' = {}
            /\ UNCHANGED args
       ELSE /\ pc' = "main"
            /\ called' = {"main"}
            /\ args' = parse_args(argv)

\* main (lines 43-46): everything up to the call of create_file.
main_body ==
    /\ pc = "main"
    /\ IF args.filename.isNone
       THEN /\ pc' = "error"
            /\ exc' = "TypeError"
            /\ called' = called \cup {"create_file_name"}
            /\ UNCHANGED <<file_name, dest_dir, file, content>>
       ELSE IF args.dest.isNone
       THEN /\ pc' = "error"
            /\ exc' = "TypeError"
            /\ called' = called \cup {"create_file_name", "get_dest_dir"}
            /\ file_name' = create_file_name(args.filename.val, DefaultExt, today)
            /\ UNCHANGED <<dest_dir, file, content>>
       ELSE /\ pc' = "create_file"
            /\ exc' = "none"
            /\ called' = called \cup {"create_file_name", "get_dest_dir",
                                      "get_front_matter", "create_file"}
            /\ file_name' = create_file_name(args.filename.val, DefaultExt, today)
            /\ dest_dir' = get_dest_dir(~args.drafts, args.dest.val)
            /\ file' = PathJoin(<<dest_dir', file_name'>>)
            /\ content' = get_front_matter
    /\ UNCHANGED <<entry, call, args, todo, handle, dirs, files, today, env,
                   runs, stdout, dirs0, files0, rerun, prevFile>>

\* A caller importing the module and calling create_file(file, content).
CallCreateFile(f, c) ==
    /\ Begin([fn |-> "create_file", argv |-> <<f, c>>, date |-> today])
    /\ entry' = "create_file"
    /\ pc' = "create_file"
    /\ called' = {"create_file"}
    /\ file' = f
    /\ content' = c
    /\ UNCHANGED args

\* A caller importing the module into a fresh interpreter and calling
\* create_file_name(words, ext).
CallCreateFileName(words, ext) ==
    /\ pc = "idle"
    /\ entry' = "create_file_name"
    /\ call' = [fn |-> "create_file_name", argv |-> <<words, ext>>, date |-> today]
    /\ pc' = "done"
    /\ exc' = "none"
    /\ called' = {"create_file_name"}
    /\ file_name' = create_file_name(words, ext, today)
    /\ rerun' = FALSE
    /\ UNCHANGED <<args, dest_dir, file, content, todo, handle, dirs, files,
                   today, env, runs, stdout, dirs0, files0, prevFile>>

\* create_file, lines 26-27: the existence test and the start of makedirs.
\* os.makedirs("") reaches mkdir(""), which fails with ENOENT.
create_file_check ==
    /\ pc = "create_file"
    /\ LET d == Dirname(file)
       IN  IF Exists(d)
           THEN pc' = "open" /\ UNCHANGED <<todo, exc>>
           ELSE IF d = <<>>
           THEN pc' = "error" /\ exc' = "FileNotFoundError" /\ UNCHANGED todo
           ELSE pc' = "makedirs" /\ todo' = Missing(Resolve(d)) /\ UNCHANGED exc
    /\ UNCHANGED <<entry, call, args, file_name, dest_dir, file, content,
                   handle, dirs, files, today, env, runs, stdout, called,
                   dirs0, files0, rerun, prevFile>>

\* os.makedirs, line 27: one mkdir per missing directory, outermost first.
makedirs_step ==
    /\ pc = "makedirs"
    /\ LET q == Head(todo)
       IN  IF Parent(q) \in DOMAIN files
           THEN pc' = "error" /\ exc' = "NotADirectoryError" /\ UNCHANGED <<dirs, todo>>
           ELSE IF Parent(q) \in env.readonly
           THEN pc' = "error" /\ exc' = "PermissionError" /\ UNCHANGED <<dirs, todo>>
           ELSE /\ dirs' = dirs \cup {q}
                /\ todo' = Tail(todo)
                /\ pc' = IF Tail(todo) = <<>> THEN "open" ELSE "makedirs"
                /\ UNCHANGED exc
    /\ UNCHANGED <<entry, call, args, file_name, dest_dir, file, content,
                   handle, files, today, env, runs, stdout, called,
                   dirs0, files0, rerun, prevFile>>

\* open(file, mode='w+'), line 28: create or truncate.
open_file ==
    /\ pc = "open"
    /\ LET t == Resolve(file)
       IN  IF t = <<>> \/ t \in dirs
           THEN pc' = "error" /\ exc' = "IsADirectoryError" /\ UNCHANGED <<files, handle>>
           ELSE IF Parent(t) \in DOMAIN files
           THEN pc' = "error" /\ exc' = "NotADirectoryError" /\ UNCHANGED <<files, handle>>
           ELSE IF Parent(t) \notin dirs
           THEN pc' = "error" /\ exc' = "FileNotFoundError" /\ UNCHANGED <<files, handle>>
           ELSE IF t \notin DOMAIN files /\ Parent(t) \in env.readonly
           THEN pc' = "error" /\ exc' = "PermissionError" /\ UNCHANGED <<files, handle>>
           ELSE /\ files' = OpenForWrite(t)
                /\ handle' = Some(t)
                /\ pc' = "write"
                /\ UNCHANGED exc
    /\ UNCHANGED <<entry, call, args, file_name, dest_dir, file, content, todo,
                   dirs, today, env, runs, stdout, called,
                   dirs0, files0, rerun, prevFile>>

\* write_file writing the template whatever content it was handed.
write_file_template ==
    /\ pc = "write"
    /\ pc' = "close"
    /\ IF env.diskFull
       THEN /\ \E k \in 0..(Len(get_front_matter) - 1) :
                  files' = WriteAt(handle.val, SubSeq(get_front_matter, 1, k))
            /\ exc' = "OSError"
       ELSE /\ files' = WriteAt(handle.val, get_front_matter)
            /\ UNCHANGED exc
    /\ UNCHANGED <<entry, call, args, file_name, dest_dir, file, content, todo,
                   handle, dirs, today, env, runs, stdout, called,
                   dirs0, files0, rerun, prevFile>>

\* f.write(content), line 29.  On a full disk any proper prefix may have
\* reached the file when the error is raised.
write_file ==
    /\ pc = "write"
    /\ pc' = "close"
    /\ IF env.diskFull
       THEN /\ \E k \in 0..(Len(content) - 1) :
                  files' = WriteAt(handle.val, SubSeq(content, 1, k))
            /\ exc' = "OSError"
       ELSE /\ files' = WriteAt(handle.val, content)
            /\ UNCHANGED exc
    /\ UNCHANGED <<entry, call, args, file_name, dest_dir, file, content, todo,
                   handle, dirs, today, env, runs, stdout, called,
                   dirs0, files0, rerun, prevFile>>

\* close_file without the with statement: f.close() after f.write(), which a
\* failing write skips.
close_file_unscoped ==
    /\ pc = "close"
    /\ handle' = IF exc = "none" THEN None ELSE handle
    /\ pc' = IF exc # "none" THEN "error"
             ELSE IF entry = "main" THEN "return" ELSE "done"
    /\ UNCHANGED <<entry, call, args, file_name, dest_dir, file, content, todo,
                   exc, dirs, files, today, env, runs, stdout, called,
                   dirs0, files0, rerun, prevFile>>

\* Leaving the with block, lines 28-29: the handle is closed, a pending
\* exception goes on to the caller.
close_file ==
    /\ pc = "close"
    /\ handle' = None
    /\ pc' = IF exc # "none" THEN "error"
             ELSE IF entry = "main" THEN "return" ELSE "done"
    /\ UNCHANGED <<entry, call, args, file_name, dest_dir, file, content, todo,
                   exc, dirs, files, today, env, runs, stdout, called,
                   dirs0, files0, rerun, prevFile>>

\* main_return with print_file(file) wired in after create_file.
main_return_printing ==
    /\ pc = "return"
    /\ pc' = "done"
    /\ stdout' = print_file(file)
    /\ called' = called \cup {"print_file"}
    /\ UNCHANGED <<entry, call, args, file_name, dest_dir, file, content, todo,
                   handle, exc, dirs, files, today, env, runs,
                   dirs0, files0, rerun, prevFile>>

\* main, line 47: create_file has returned; main prints nothing and returns,
\* and the interpreter exits.
main_return ==
    /\ pc = "return"
    /\ pc' = "done"
    /\ UNCHANGED <<entry, call, args, file_name, dest_dir, file, content, todo,
                   handle, exc, dirs, files, today, env, runs, stdout, called,
                   dirs0, files0, rerun, prevFile>>

\* The calendar moves on between invocations.
NextDay ==
    /\ pc \in Terminal
    /\ \E d \in Dates : Later(today, d) /\ today' = d
    /\ UNCHANGED <<pc, entry, call, args, file_name, dest_dir, file, content,
                   todo, handle, exc, dirs, files, env, runs, stdout, called,
                   dirs0, files0, rerun, prevFile>>

Next ==
    \/ \E argv \in Argvs : RunScript(argv)
    \/ main_body
    \/ \E f \in DirectFiles, c \in DirectContents : CallCreateFile(f, c)
    \/ \E w \in WordLists, e \in Exts : CallCreateFileName(w, e)
    \/ create_file_check
    \/ makedirs_step
    \/ open_file
    \/ write_file
    \/ close_file
    \/ main_return
    \/ NextDay

Spec == Init /\ [][Next]_vars

---------------------------------------------------------------------------
\* Vocabulary of the properties

IsPrefix(a, b) == Len(a) <= Len(b) /\ SubSeq(b, 1, Len(a)) = a

EndsWith(s, suffix) ==
    Len(suffix) <= Len(s) /\ SubSeq(s, Len(s) - Len(suffix) + 1, Len(s)) = suffix

sPosts == <<"_", "p", "o", "s", "t", "s">>

sDrafts == <<"_", "d", "r", "a", "f", "t", "s">>

Stopped == pc \in {"done", "error", "usage"}

\* "-" + lower(w1) + "-" + ... + "-" + lower(wN), word by word.
RECURSIVE Dashed(_)
Dashed(words) ==
    IF words = <<>> THEN <<>>
    ELSE <<"-">> \o Lower(Head(words)) \o Dashed(Tail(words))

ExpectedName(words, ext, d) == IsoFormat(d) \o Dashed(words) \o ext

\* The resolved path <root>/<base>.
BaseNode(base) == Resolve(Root) \o <<base>>

---------------------------------------------------------------------------
\* Properties

\* C1: started with a non-empty -f word list, without -d and without
\* --drafts, the script ends without error and
\* <root>/_posts/<date>-<lower-cased words joined by "-">.md holds exactly
\* the front-matter template.
C1_DefaultPostCreated ==
    (entry = "main" /\ Stopped /\ ~call.argv.f.isNone /\ call.argv.f.val # <<>>
        /\ call.argv.d.isNone /\ ~call.argv.drafts)
    => /\ pc = "done"
       /\ LET t == BaseNode(sPosts)
                     \o <<ExpectedName(call.argv.f.val, DefaultExt, call.date)>>
          IN  t \in DOMAIN files /\ files[t] = get_front_matter

\* C2: started without -f, the script stops in the argument parser with a
\* usage error and a non-zero status: main is never entered and the
\* filesystem is not touched.
C2_MissingFilenameIsUsageError ==
    (entry = "main" /\ call.argv.f.isNone)
    => /\ pc = "usage"
       /\ ExitStatus # 0
       /\ "main" \notin called
       /\ dirs = dirs0 /\ files = files0

\* C3: for a non-empty word list, an extension and the date of the call,
\* create_file_name returns ISO(date) + "-" + lower(w1) + ... + "-" +
\* lower(wN) + ext, words in order; the result is a function of the words,
\* the extension and the date alone.
C3_FileNameFormat ==
    /\ (entry = "create_file_name")
       => file_name = ExpectedName(call.argv[1], call.argv[2], call.date)
    /\ (entry = "main" /\ "create_file_name" \in called /\ ~args.filename.isNone)
       => file_name = ExpectedName(args.filename.val, DefaultExt, call.date)

C3_Witness ==
    /\ entry = "create_file_name"
    /\ call.argv[1] = <<wMy, wFirst, wPost>>
    /\ call.argv[2] = <<".", "T", "X", "T">>
    /\ file_name = <<"2","0","2","4","-","0","3","-","1","5","-","m","y","-",
                     "f","i","r","s","t","-","p","o","s","t",".","T","X","T">>

\* The call get_dest_dir(is_post, "") that main has made.
DestDirOfEmptyDest ==
    entry = "main" /\ "create_file" \in called /\ args.dest.val = <<>>

\* C4 as stated: with dest = "", the path get_dest_dir returns ends in
\* `_posts` for a post and in `_drafts` for a draft, and starts with the
\* repository root.
C4_EndsWithBaseName ==
    DestDirOfEmptyDest
    => /\ EndsWith(dest_dir, IF args.drafts THEN sDrafts ELSE sPosts)
       /\ IsPrefix(Root, dest_dir)

\* C4 as amended: with dest = "", the path get_dest_dir returns is the
\* repository root, a separator, `_posts` for a post and `_drafts` for a
\* draft, and one trailing separator.
C4_EndsWithBaseNameSlash ==
    DestDirOfEmptyDest
    => LET base == IF args.drafts THEN sDrafts ELSE sPosts
       IN  /\ EndsWith(dest_dir, base \o <<"/">>)
           /\ IsPrefix(Root, dest_dir)
           /\ Len(dest_dir) = Len(RStripSlash(Root)) + Len(base) + 2

C4_Witness ==
    /\ DestDirOfEmptyDest
    /\ args.drafts
    /\ dest_dir = <<"/", "r", "/", "_", "d", "r", "a", "f", "t", "s", "/">>

AncestorsAreDirs(t) == \A k \in 0..(Len(t) - 1) : SubSeq(t, 1, k) \in dirs

\* C5: a create_file that succeeds on a path whose parent directory was
\* missing leaves every ancestor of the file a directory and the file
\* holding exactly the content passed in; no file is opened or changed
\* before the directories are made, and they are all there while the file
\* is open.
C5_DirsThenFile ==
    ("create_file" \in called)
    => LET t == Resolve(file)
       IN  /\ (pc \in {"create_file", "makedirs", "open"})
              => (handle.isNone /\ files = files0)
           /\ (pc \in {"write", "close"}) => AncestorsAreDirs(t)
           /\ (pc \in {"return", "done"} /\ Parent(t) \notin dirs0)
              => /\ AncestorsAreDirs(t)
                 /\ t \in DOMAIN files
                 /\ files[t] = content

C5_Witness ==
    /\ "create_file" \in called
    /\ pc = "done"
    /\ LET t == Resolve(file)
       IN  /\ Len(t) >= 3
           /\ SubSeq(t, 1, Len(t) - 2) \notin dirs0
           /\ t \in DOMAIN files
           /\ files[t] = get_front_matter

\* C6: the script run again with the same command line on the same day,
\* after a run that succeeded, succeeds, targets the same path and leaves
\* the tree exactly as it found it: same directories, same files, the
\* target holding the template once.
C6_Idempotent ==
    (entry = "main" /\ rerun /\ Stopped)
    => /\ pc = "done"
       /\ file = prevFile
       /\ dirs = dirs0
       /\ files = files0
       /\ files[Resolve(file)] = get_front_matter

C6_Witness == entry = "main" /\ rerun /\ pc = "done"

\* C7: a run of the script that succeeds writes one file, creates
\* directories only among that file's ancestors, leaves every other file
\* and directory as it was, deletes nothing, prints nothing and does not
\* call print_file.
C7_Frame ==
    (entry = "main" /\ pc = "done")
    => LET t == Resolve(file)
       IN  /\ DOMAIN files = DOMAIN files0 \cup {t}
           /\ \A f \in DOMAIN files0 \ {t} : files[f] = files0[f]
           /\ dirs0 \subseteq dirs
           /\ \A d \in dirs \ dirs0 : Len(d) < Len(t) /\ IsPrefix(d, t)
           /\ stdout = <<>>
           /\ "print_file" \notin called

C7_Witness ==
    /\ entry = "main"
    /\ pc = "done"
    /\ Cardinality(dirs \ dirs0) >= 2
    /\ Cardinality(DOMAIN files0) >= 3
    /\ Resolve(file) \notin DOMAIN files0

C8_Inv ==
    /\ (pc \in Terminal) => handle.isNone
    /\ ("create_file" \in called /\ pc = "error")
       => /\ ExitStatus = 1
          /\ exc # "none"
          /\ (exc # "OSError") => files = files0

C8_NoRetry ==
    (pc = "error") => (pc' = "error" /\ dirs' = dirs /\ files' = files)
                      \/ runs' = runs + 1

\* C8: when making the directories or opening the file fails, the error
\* leaves the script uncaught (status 1), the run does nothing more, and no
\* file has been created or changed; whenever the script has stopped, a
\* failed write included, no file handle is open.
C8_FailurePropagates == []C8_Inv /\ [][C8_NoRetry]_vars

C8_Witness ==
    /\ entry = "main"
    /\ pc = "error"
    /\ exc = "PermissionError"
    /\ "create_file" \in called

\* C9: the file a successful run writes lies inside the selected base
\* directory, <root>/_posts or <root>/_drafts, whatever dest is, and
\* get_dest_dir returns the base directory with dest beneath it.
C9_InsideBase ==
    (entry = "main" /\ pc = "done")
    => LET base == IF args.drafts THEN sDrafts ELSE sPosts
       IN  /\ IsPrefix(BaseNode(base), Resolve(file))
           /\ IsPrefix(Join2(Root, base), dest_dir)

\* C10: create_file called with a bare file name (empty parent-directory
\* string) tries to make no directory, raises nothing and writes the
\* content to that name in the working directory.
C10_BareName ==
    (entry = "create_file" /\ Dirname(file) = <<>>)
    => /\ pc \notin {"makedirs", "error"}
       /\ (pc = "done") => (Resolve(file) \in DOMAIN files
                            /\ files[Resolve(file)] = content)

====
